---- MODULE Spec2Model ----
(***************************************************************************)
(* Model of src/random_image.py: one RandomImage instance (an Ellipse,     *)
(* Circle, Rectangle, Square or Polygon) and the calls create() and draw() *)
(* made on it.                                                             *)
(*                                                                         *)
(* Abstractions.                                                           *)
(*  - np.random.rand() is drawn from the grid {0/G, 1/G, .., (G-1)/G};     *)
(*    products with the canvas size are exact rationals, and astype(int)   *)
(*    is the truncation (k * side) \div G.                                 *)
(*  - The pixels are not modelled: the image is the pair (width, height)   *)
(*    of the PIL buffer.                                                   *)
(*  - random_convex_polygon(n) returns n points of the unit square with    *)
(*    coordinates k/Den; vertex coordinates are held in units of 1/Den     *)
(*    pixel, so that the affine map of Polygon._draw is exact.             *)
(*  - A colour argument is one of five kinds, which decide whether PIL     *)
(*    accepts it as given, after tuple(), or not at all.                   *)
(*  - Python's None is the empty tuple.                                    *)
(***************************************************************************)
EXTENDS Integers, Sequences, FiniteSets, TLC

VARIABLES cls, size, mode, n, image, box, vertices, genCalls, call, result, sampler

vars == <<cls, size, mode, n, image, box, vertices, genCalls, call, result, sampler>>

----------------------------------------------------------------------------
(* Bounds *)

G == 3            \* resolution of np.random.rand(): samples are k/G, k in 0..G-1
Den == 1          \* resolution of the polygon generator: coordinates are k/Den
MaxN == 3         \* largest vertex count n of a Polygon (the smallest is 3)
SmallSide == 10   \* the two canvas side lengths, in pixels
LargeSide == 30

(* Program constants *)

MinWidthNum == 1      \* self.min_width  = 0.1 = MinWidthNum / MinWidthDen
MinWidthDen == 10
MinHeightNum == 1     \* self.min_height = 0.1 = MinHeightNum / MinHeightDen
MinHeightDen == 10

None == <<>>

Classes == {"Ellipse", "Circle", "Rectangle", "Square", "Polygon"}
Modes == {"RGB", "L", "1"}
Sizes == {<<SmallSide, SmallSide>>, <<LargeSide, SmallSide>>, <<SmallSide, LargeSide>>}

\* the boxes a caller passes to draw(box=...)
ExplicitBoxes == {<<1, 1, 5, 5>>, <<2, 3, 8, 9>>}

\* the kinds of colour argument: None; a value PIL takes as given (200, (255, 0, 0),
\* 'red'); a sequence PIL takes only as a tuple ([255, 0, 0]); an iterable PIL takes
\* in neither form ('no-colour'); a value tuple() cannot iterate (an object())
ColorKinds == {"omitted", "native", "sequence", "malformed", "noniterable"}

----------------------------------------------------------------------------
(* RandomImage *)

\* self._full_size: the shape of the random colour matrix
full_size(sz, md) == IF md = "RGB" THEN <<sz[1], sz[2], 3>> ELSE sz

\* Image.fromarray(a).size: a numpy array of shape (rows, columns[, channels]) is an
\* image of width columns and height rows
fromarray_size(shape) == <<shape[2], shape[1]>>

\* Image.new(mode, size, color).size
new_size(sz) == sz

\* PIL takes the colour in the given form ("raw", "tuple" or "random")
ColorAccepted(form, kind) ==
    CASE form = "random" -> TRUE
      [] form = "raw"    -> kind = "native"
      [] form = "tuple"  -> kind \in {"native", "sequence"}

\* tuple(color) returns
TupleConverts(kind) == kind # "noniterable"

\* the attempts of a try / except pair: the value as given, then tuple(value)
\* ok is the outcome of the part of the call that does not depend on the colour
TryThenTuple(kind, ok) ==
    IF ok /\ ColorAccepted("raw", kind)
    THEN << [form |-> "raw", ok |-> TRUE] >>
    ELSE IF ~TupleConverts(kind)
    THEN << [form |-> "raw", ok |-> FALSE] >>
    ELSE << [form |-> "raw", ok |-> FALSE],
            [form |-> "tuple", ok |-> ok /\ ColorAccepted("tuple", kind)] >>

Returned(attempts) == attempts # <<>> /\ attempts[Len(attempts)].ok

\* a create() that starts the shape afresh
create_reset(color) ==
    /\ sampler.pc = "idle"
    /\ image' = new_size(size)
    /\ call' = [op |-> "create", box |-> "-", color |-> color]
    /\ result' = [returned |-> TRUE, attempts |-> <<>>]
    /\ box' = None /\ vertices' = None
    /\ UNCHANGED <<cls, size, mode, n, genCalls, sampler>>

\* RandomImage.create
create(color) ==
    LET attempts == IF color = "omitted"
                    THEN << [form |-> "random", ok |-> TRUE] >>
                    ELSE TryThenTuple(color, TRUE)
    IN  /\ sampler.pc = "idle"
        /\ image' = IF ~Returned(attempts) THEN image
                    ELSE IF color = "omitted"
                    THEN fromarray_size(full_size(size, mode))
                    ELSE new_size(size)
        /\ call' = [op |-> "create", box |-> "-", color |-> color]
        /\ result' = [returned |-> Returned(attempts), attempts |-> attempts]
        /\ UNCHANGED <<cls, size, mode, n, box, vertices, genCalls, sampler>>

----------------------------------------------------------------------------
(* Ellipse._random_box, Circle._random_box *)

Trunc(num, den) == num \div den

\* np.sort(np.random.rand(1, 2)): a sorted pair of samples
SortedPairs == {p \in (0 .. G - 1) \X (0 .. G - 1) : p[1] <= p[2]}

\* a test against 1 in place of min_[i]
EllipseLoopContinuesBelowOne(pair, minNum, minDen) == pair[2] - pair[1] < G

\* the loop test np.diff(box[i]) < min_[i], with min_ = minNum / minDen
EllipseLoopContinues(pair, minNum, minDen) ==
    minDen * (pair[2] - pair[1]) < minNum * G

\* the loop test (s < self.min_width) or np.any(p + s > 1)
CircleLoopContinues(p, s) ==
    \/ MinWidthDen * s < MinWidthNum * G
    \/ p[1] + s > G
    \/ p[2] + s > G

\* lines 96-97 and 170-171: b = [[x_llc, x_urc], [y_llc, y_urc]] in grid units;
\* column 0 is multiplied by size[0], column 1 by size[1]
ScaleBox(b, sz) ==
    << Trunc(b[1][1] * sz[1], G), Trunc(b[2][1] * sz[1], G),
       Trunc(b[1][2] * sz[2], G), Trunc(b[2][2] * sz[2], G) >>

\* the boxes Ellipse._random_box() can return
Ellipse_random_box(sz) ==
    { ScaleBox(<<xs, ys>>, sz) :
        xs \in {p \in SortedPairs : ~EllipseLoopContinues(p, MinWidthNum, MinWidthDen)},
        ys \in {p \in SortedPairs : ~EllipseLoopContinues(p, MinHeightNum, MinHeightDen)} }

\* one draw of p = np.random.rand(2, 1) and s = np.random.rand(1): <<p_x, p_y, s>>
CircleSamples == (0 .. G - 1) \X (0 .. G - 1) \X (0 .. G - 1)

\* np.hstack((p, p + s))
hstack(t) == << <<t[1], t[1] + t[3]>>, <<t[2], t[2] + t[3]>> >>

\* the boxes Circle._random_box() can return
Circle_random_box(sz) ==
    { ScaleBox(hstack(t), sz) :
        t \in {u \in CircleSamples : ~CircleLoopContinues(<<u[1], u[2]>>, u[3])} }

\* the class takes _random_box from Circle (Square overrides it with Circle's)
SamplesSquare(c) == c \in {"Circle", "Square"}

\* the boxes self._random_box() can return, for every class and canvas size
RandomBoxes ==
    [c \in Classes |-> [sz \in Sizes |->
        IF SamplesSquare(c) THEN Circle_random_box(sz) ELSE Ellipse_random_box(sz)]]

random_box(c, sz) == RandomBoxes[c][sz]

----------------------------------------------------------------------------
(* The fill primitives and _draw *)

\* random_convex_polygon(k): k points of the unit square, not closed. The points are
\* taken on the boundary of the square, counter-clockwise, in units of 1/Den.
BoundaryPoint(j) ==
    IF j < Den THEN <<j, 0>>
    ELSE IF j < 2 * Den THEN <<Den, j - Den>>
    ELSE IF j < 3 * Den THEN <<3 * Den - j, Den>>
    ELSE <<0, 4 * Den - j>>

random_convex_polygon(k) ==
    { [i \in 1 .. k |-> BoundaryPoint((start + ((i - 1) * 4 * Den) \div k) % (4 * Den))] :
        start \in 0 .. 4 * Den - 1 }

\* the four corners without the return to the first
box_to_coord_open(b) ==
    << <<Den * b[1], Den * b[2]>>, <<Den * b[1], Den * b[4]>>,
       <<Den * b[3], Den * b[4]>>, <<Den * b[3], Den * b[2]>> >>

\* Ellipse.box_to_coord zipped: the corners of the box, in units of 1/Den pixel
box_to_coord(b) ==
    << <<Den * b[1], Den * b[2]>>, <<Den * b[1], Den * b[4]>>,
       <<Den * b[3], Den * b[4]>>, <<Den * b[3], Den * b[2]>>,
       <<Den * b[1], Den * b[2]>> >>

\* scale_x, scale_y of Polygon._draw, in units of 1/Den pixel
scale_x(b, x) == Den * b[1] + x * (b[3] - b[1])
scale_y(b, y) == Den * b[2] + y * (b[4] - b[2])

\* self.vertices after Rectangle._draw
Rectangle_draw(b) == box_to_coord(b)

\* the generator called in every _draw
PolygonGeneratesAlways(v) == TRUE

\* line 255: Polygon._draw calls the generator
PolygonGenerates(v) == v = None

\* self.vertices after Polygon._draw; poly is what random_convex_polygon returns
Polygon_draw(b, v, poly) ==
    IF PolygonGenerates(v)
    THEN LET p == Append(poly, poly[1])
         IN  [i \in 1 .. Len(p) |-> <<scale_x(b, p[i][1]), scale_y(b, p[i][2])>>]
    ELSE v

\* the number of calls of random_convex_polygon after Polygon._draw
Polygon_draw_calls(v, calls) == IF PolygonGenerates(v) THEN calls + 1 ELSE calls

\* self.vertices after one call of self._draw(), by the method resolution order
draw_vertices(c, b, v, poly) ==
    CASE c \in {"Rectangle", "Square"} -> Rectangle_draw(b)
      [] c = "Polygon"                 -> Polygon_draw(b, v, poly)
      [] OTHER                         -> v

\* the calls of random_convex_polygon after one call of self._draw()
draw_calls(c, v, calls) == IF c = "Polygon" THEN Polygon_draw_calls(v, calls) ELSE calls

\* what random_convex_polygon can return in this call of draw(), <<>> when not called
GeneratorOutputs ==
    IF cls = "Polygon" /\ PolygonGenerates(vertices) /\ image # None
    THEN random_convex_polygon(n)
    ELSE {<<>>}

\* ImageDraw.ellipse(box): the releases of PIL differ on a box with x1 < x0 or
\* y1 < y0, which the newer ones refuse; ImageDraw.polygon takes any vertex list
PrimitiveOutcomes(c, b) ==
    IF c \in {"Ellipse", "Circle"} /\ (b[3] < b[1] \/ b[4] < b[2])
    THEN {TRUE, FALSE}
    ELSE {TRUE}

\* one call of self._draw, whatever its outcome
FillAttemptsOnce(color, ok) ==
    IF color = "omitted"
    THEN << [form |-> "random", ok |-> ok] >>
    ELSE << [form |-> "raw", ok |-> ok /\ ColorAccepted("raw", color)] >>

\* lines 113-120: the calls of self._draw and their outcomes
FillAttempts(color, ok) ==
    IF color = "omitted"
    THEN << [form |-> "random", ok |-> ok] >>
    ELSE TryThenTuple(color, ok)

\* the rest of draw() once self.box is b (lines 111-121)
DrawWithBox(b, boxArg, color) ==
    /\ box' = b
    /\ call' = [op |-> "draw", box |-> boxArg, color |-> color]
    /\ IF image = None
       THEN \* ImageDraw.Draw(None) raises
            /\ result' = [returned |-> FALSE, attempts |-> <<>>]
            /\ UNCHANGED <<vertices, genCalls>>
       ELSE \E poly \in GeneratorOutputs, ok \in PrimitiveOutcomes(cls, b) :
            LET attempts == FillAttempts(color, ok)
                \* _draw sets self.vertices before it calls the primitive
                first == draw_vertices(cls, b, vertices, poly)
                firstCalls == draw_calls(cls, vertices, genCalls)
            IN  /\ vertices' = IF Len(attempts) = 2
                               THEN draw_vertices(cls, b, first, poly)
                               ELSE first
                /\ genCalls' = IF Len(attempts) = 2
                               THEN draw_calls(cls, first, firstCalls)
                               ELSE firstCalls
                /\ result' = [returned |-> Returned(attempts), attempts |-> attempts]
    /\ UNCHANGED <<cls, size, mode, n, image>>

draw(boxArg, color) ==
    /\ sampler.pc = "idle"
    /\ \E b \in IF boxArg = "omitted" THEN random_box(cls, size) ELSE ExplicitBoxes :
          DrawWithBox(b, boxArg, color)
    /\ UNCHANGED sampler

----------------------------------------------------------------------------
\* the locals of a running _random_box(): the position, the axis i (1 or 2), the
\* array box, p and s in grid units, whether a sample was rejected, the value returned
IdleSampler ==
    [pc |-> "idle", i |-> 0, box |-> << <<0, 0>>, <<0, 0>> >>, p |-> <<0, 0>>, s |-> 0,
     retried |-> FALSE, ret |-> None]

Init ==
    /\ cls \in Classes
    /\ size \in Sizes
    /\ mode \in Modes
    /\ n \in IF cls = "Polygon" THEN 3 .. MaxN ELSE {0}
    /\ image = None
    /\ box = None
    /\ vertices = None
    /\ genCalls = 0
    /\ call = [op |-> "init", box |-> "-", color |-> "-"]
    /\ result = [returned |-> TRUE, attempts |-> <<>>]
    /\ sampler = IdleSampler

Create == \E color \in ColorKinds : create(color)

Draw == \E boxArg \in {"omitted", "given"}, color \in ColorKinds : draw(boxArg, color)

Next == Create \/ Draw

Spec == Init /\ [][Next]_vars

----------------------------------------------------------------------------
(* The calls on a square canvas with the colour omitted or given as a list *)

ShapeColors == {"omitted", "sequence"}

ShapeInit == Init /\ size = <<SmallSide, SmallSide>> /\ mode = "RGB"

ShapeCreate == \E color \in ShapeColors : create(color)

ShapeDraw == \E boxArg \in {"omitted", "given"}, color \in ShapeColors : draw(boxArg, color)

ShapeNext == ShapeCreate \/ ShapeDraw

ShapeSpec == ShapeInit /\ [][ShapeNext]_vars

(* The calls on the classes that fill the box itself, with every kind of colour *)

ColourInit == Init /\ cls # "Polygon"

ColourSpec == ColourInit /\ [][Next]_vars

----------------------------------------------------------------------------
(* _random_box() step by step: one action for each evaluation of a loop test *)

min_(i) == IF i = 1 THEN <<MinWidthNum, MinWidthDen>> ELSE <<MinHeightNum, MinHeightDen>>

\* the test of the while loop on the locals of the call
LoopTest(l) ==
    IF SamplesSquare(cls)
    THEN CircleLoopContinues(l.p, l.s)
    ELSE EllipseLoopContinues(l.box[l.i], min_(l.i)[1], min_(l.i)[2])

\* line 91: box = np.zeros((2, 2)), and the first test of axis 0
EllipseCall ==
    /\ ~SamplesSquare(cls) /\ sampler.pc = "idle"
    /\ sampler' = [IdleSampler EXCEPT !.pc = "loop", !.i = 1]
    /\ UNCHANGED <<cls, size, mode, n, image, box, vertices, genCalls, call, result>>

\* a pass of the loop draws a sample; rejected says the next test will hold on it
EllipseResample(pair, rejected) ==
    /\ ~SamplesSquare(cls) /\ sampler.pc = "loop" /\ LoopTest(sampler)
    /\ sampler' = [sampler EXCEPT !.box[sampler.i] = pair,
                                  !.retried = sampler.retried \/ rejected]
    /\ UNCHANGED <<cls, size, mode, n, image, box, vertices, genCalls, call, result>>

\* lines 94-95: the test holds, and the sample drawn ends the loop
EllipseResampleAccepted ==
    \E pair \in SortedPairs :
        /\ ~EllipseLoopContinues(pair, min_(sampler.i)[1], min_(sampler.i)[2])
        /\ EllipseResample(pair, FALSE)

\* lines 94-95: the test holds, and the sample drawn is rejected by the next test
EllipseResampleRejected ==
    \E pair \in SortedPairs :
        /\ EllipseLoopContinues(pair, min_(sampler.i)[1], min_(sampler.i)[2])
        /\ EllipseResample(pair, TRUE)

\* lines 93-94: the test fails, the for loop goes to the next axis or ends
EllipseNextAxis ==
    /\ ~SamplesSquare(cls) /\ sampler.pc = "loop" /\ ~LoopTest(sampler)
    /\ sampler' = IF sampler.i = 1
                  THEN [sampler EXCEPT !.i = 2]
                  ELSE [sampler EXCEPT !.pc = "scale"]
    /\ UNCHANGED <<cls, size, mode, n, image, box, vertices, genCalls, call, result>>

\* lines 164-165: the first p and s
CircleCall ==
    /\ SamplesSquare(cls) /\ sampler.pc = "idle"
    /\ \E t \in CircleSamples :
          sampler' = [IdleSampler EXCEPT !.pc = "loop", !.p = <<t[1], t[2]>>, !.s = t[3]]
    /\ UNCHANGED <<cls, size, mode, n, image, box, vertices, genCalls, call, result>>

\* a pass of the loop: the sample held was rejected, another is drawn
CircleResample(t) ==
    /\ SamplesSquare(cls) /\ sampler.pc = "loop" /\ LoopTest(sampler)
    /\ sampler' = [sampler EXCEPT !.p = <<t[1], t[2]>>, !.s = t[3], !.retried = TRUE]
    /\ UNCHANGED <<cls, size, mode, n, image, box, vertices, genCalls, call, result>>

\* lines 166-168: the test holds, and the sample drawn ends the loop
CircleResampleAccepted ==
    \E t \in CircleSamples :
        ~CircleLoopContinues(<<t[1], t[2]>>, t[3]) /\ CircleResample(t)

\* lines 166-168: the test holds, and the sample drawn is rejected by the next test
CircleResampleRejected ==
    \E t \in CircleSamples :
        CircleLoopContinues(<<t[1], t[2]>>, t[3]) /\ CircleResample(t)

\* lines 166, 169: the test fails, box = np.hstack((p, p + s))
CircleExit ==
    /\ SamplesSquare(cls) /\ sampler.pc = "loop" /\ ~LoopTest(sampler)
    /\ sampler' = [sampler EXCEPT !.pc = "scale",
                                  !.box = hstack(<<sampler.p[1], sampler.p[2], sampler.s>>)]
    /\ UNCHANGED <<cls, size, mode, n, image, box, vertices, genCalls, call, result>>

\* lines 96-97 and 170-171: scale, truncate, return
Return ==
    /\ sampler.pc = "scale"
    /\ sampler' = [sampler EXCEPT !.pc = "idle", !.ret = ScaleBox(sampler.box, size)]
    /\ UNCHANGED <<cls, size, mode, n, image, box, vertices, genCalls, call, result>>

LoopNext ==
    \/ EllipseCall \/ EllipseResampleAccepted \/ EllipseResampleRejected \/ EllipseNextAxis
    \/ CircleCall \/ CircleResampleAccepted \/ CircleResampleRejected \/ CircleExit
    \/ Return

\* the interpreter runs the call on, and a sample that passes the test is
\* eventually drawn
LoopFairness ==
    /\ WF_vars(EllipseResampleAccepted) /\ WF_vars(EllipseNextAxis)
    /\ WF_vars(CircleResampleAccepted) /\ WF_vars(CircleExit)
    /\ WF_vars(Return)

LoopSpec == Init /\ [][LoopNext]_vars /\ LoopFairness

----------------------------------------------------------------------------
(* Properties *)

Width == size[1]
Height == size[2]

DrewRandomBox == call.op = "draw" /\ call.box = "omitted" /\ result.returned

\* C1: once create() has made the image, the buffer's width and height are those of
\* self.size, also after any later create() and draw()
C1_BufferMatchesSize == image # None => image = size

\* C2: a box _random_box() made for an Ellipse or a Rectangle is at least
\* min_width * width wide and min_height * height high
C2_MinimumExtent ==
    (cls \in {"Ellipse", "Rectangle"} /\ DrewRandomBox) =>
        /\ MinWidthDen * (box[3] - box[1]) >= MinWidthNum * Width
        /\ MinHeightDen * (box[4] - box[2]) >= MinHeightNum * Height

\* C3: the box stored by a draw() without box is well formed and inside the canvas
C3_BoxInsideCanvas ==
    DrewRandomBox =>
        /\ box[1] < box[3] /\ box[2] < box[4]
        /\ 0 <= box[1] /\ box[3] <= Width
        /\ 0 <= box[2] /\ box[4] <= Height

Abs(x) == IF x < 0 THEN -x ELSE x

\* C4: a box _random_box() made for a Circle or a Square has equal sides, up to the
\* one pixel that truncation can take
C4_EqualSides ==
    (cls \in {"Circle", "Square"} /\ DrewRandomBox) =>
        Abs((box[3] - box[1]) - (box[4] - box[2])) <= 1

Drew == call.op = "draw" /\ result.returned

\* C5: a draw() on a Polygon that already holds vertices makes a new box when none is
\* given, keeps the vertex list and does not call the generator, which has run once
C5_SecondDrawReusesVertices ==
    [][(cls = "Polygon" /\ vertices # None /\ call'.op = "draw") =>
          /\ vertices' = vertices
          /\ genCalls' = genCalls /\ genCalls' = 1
          /\ call'.box = "omitted" => box' \in random_box("Polygon", size)]_vars

InsideBox(v, b) ==
    /\ Den * b[1] <= v[1] /\ v[1] <= Den * b[3]
    /\ Den * b[2] <= v[2] /\ v[2] <= Den * b[4]

\* a square canvas, a second draw() without box, and a vertex outside the new box
C5_Witness ==
    /\ cls = "Polygon" /\ Width = Height /\ DrewRandomBox /\ genCalls = 1
    /\ \E i \in 1 .. Len(vertices) : ~InsideBox(vertices[i], box)

\* C6: after a successful draw() on a Polygon every vertex lies inside self.box
C6_VerticesInsideBox ==
    (cls = "Polygon" /\ Drew) =>
        \A i \in 1 .. Len(vertices) : InsideBox(vertices[i], box)

\* C7: after a successful draw() the vertex list is a closed ring: the four corners
\* of self.box and the first again for a Rectangle or Square, n + 1 points for a Polygon
C7_ClosedRing ==
    Drew =>
        /\ cls \in {"Rectangle", "Square"} =>
              /\ Len(vertices) = 5
              /\ vertices[1] = <<Den * box[1], Den * box[2]>>
              /\ vertices[2] = <<Den * box[1], Den * box[4]>>
              /\ vertices[3] = <<Den * box[3], Den * box[4]>>
              /\ vertices[4] = <<Den * box[3], Den * box[2]>>
              /\ vertices[5] = vertices[1]
        /\ cls = "Polygon" =>
              /\ Len(vertices) = n + 1
              /\ vertices[n + 1] = vertices[1]

C7_Witness ==
    /\ Drew /\ cls = "Polygon" /\ Len(vertices) = n + 1 /\ vertices[2] # vertices[1]

\* C8: draw() with a colour tries the colour as given, retries once with
\* tuple(color) only when that failed, and returns self only when the last attempt
\* succeeded; without a colour there is one attempt, with the random colour
C8_ColourAttempts ==
    (call.op = "draw" /\ image # None) =>
        LET a == result.attempts
        IN  IF call.color = "omitted"
            THEN /\ Len(a) = 1 /\ a[1].form = "random"
                 /\ result.returned = a[1].ok
            ELSE /\ Len(a) \in {1, 2} /\ a[1].form = "raw"
                 /\ Len(a) = 2 <=> (~a[1].ok /\ TupleConverts(call.color))
                 /\ Len(a) = 2 => a[2].form = "tuple"
                 /\ result.returned = a[Len(a)].ok

\* a retry that succeeds
C8_Witness ==
    /\ Drew /\ call.color = "sequence" /\ Len(result.attempts) = 2
    /\ ~result.attempts[1].ok

\* C10: create() changes neither self.box nor self.vertices, and the vertices of a
\* Polygon, once set, are never changed
C10_CreateKeepsGeometry ==
    [][/\ call'.op = "create" => (box' = box /\ vertices' = vertices)
       /\ (cls = "Polygon" /\ vertices # None) => vertices' = vertices]_vars

\* a create() on a Polygon that has drawn
C10_Witness ==
    /\ cls = "Polygon" /\ call.op = "create" /\ result.returned
    /\ vertices # None /\ box # None

\* C9: every call of _random_box() returns, and a loop whose test fails on the
\* sample it holds draws no other sample
C9_RandomBoxReturns ==
    /\ (sampler.pc = "loop") ~> (sampler.pc = "idle" /\ sampler.ret # None)
    /\ [][(sampler.pc = "loop" /\ ~LoopTest(sampler)) =>
             /\ sampler'.pc \in {"loop", "scale"}
             /\ sampler'.p = sampler.p /\ sampler'.s = sampler.s
             /\ sampler'.pc = "loop" => sampler'.box = sampler.box]_vars

\* a call that returned a box after it had rejected a sample
C9_Witness ==
    /\ sampler.pc = "idle" /\ sampler.ret # None /\ sampler.retried
    /\ sampler.ret \in random_box(cls, size)

====
